---- MODULE Spec2Model ----
(***************************************************************************)
(* pdnssoc-cli: the correlate command (src/pdnssoccli/pdnssoccli.py) and   *)
(* the fetch-iocs command (pdnssoccli.py and subcommands/fetch_iocs.py).   *)
(*                                                                         *)
(* Files on disk (cursor file, indicator files, input logs, matches.json)  *)
(* are the persistent state; the locals of one correlate run and its       *)
(* position in the function body are the transient state.                  *)
(***************************************************************************)
EXTENDS Integers, Sequences, FiniteSets, TLC

\* ---------------------------------------------------------------- bounds
MaxTime == 3        \* log timestamps are 0..MaxTime
MaxRuns == 2        \* correlate invocations in one behaviour
MaxServers == 1     \* configured MISP servers
MaxFetches == 3     \* fetch-iocs invocations in one behaviour
AddrBits == 2       \* width of a modelled IP address

Times == 0..MaxTime
\* datetime.now(): later than every log record
Now == MaxTime + 1

\* ---------------------------------------------------------------- strings
\* A string is a sequence of characters.
IsSpace(c) == c = " "

LowerChar(c) ==
    CASE c = "E" -> "e"
      [] c = "V" -> "v"
      [] OTHER -> c

\* str.lower()
Lower(s) == [i \in DOMAIN s |-> LowerChar(s[i])]

RECURSIVE LStrip(_)
LStrip(s) == IF s # <<>> /\ IsSpace(Head(s)) THEN LStrip(Tail(s)) ELSE s

RECURSIVE RStrip(_)
RStrip(s) ==
    IF s # <<>> /\ IsSpace(s[Len(s)]) THEN RStrip(SubSeq(s, 1, Len(s) - 1)) ELSE s

\* str.strip()
Strip(s) == RStrip(LStrip(s))

RECURSIVE SeqToSet(_)
SeqToSet(s) == IF s = <<>> THEN {} ELSE {Head(s)} \cup SeqToSet(Tail(s))

RECURSIVE Flatten(_)
Flatten(ss) == IF ss = <<>> THEN <<>> ELSE Head(ss) \o Flatten(Tail(ss))

\* ---------------------------------------------------------------- IP values
\* Addresses are AddrBits wide and written as one digit; a network is
\* written address/length, the length one digit in 0..AddrBits.
RECURSIVE Pow2(_)
Pow2(n) == IF n = 0 THEN 1 ELSE 2 * Pow2(n - 1)

Addrs == 0..(Pow2(AddrBits) - 1)

IsDigit(c) == c \in {"0", "1", "2", "3", "4", "5", "6", "7", "8", "9"}
DigitVal(c) ==
    CASE c = "0" -> 0 [] c = "1" -> 1 [] c = "2" -> 2 [] c = "3" -> 3
      [] c = "4" -> 4 [] c = "5" -> 5 [] c = "6" -> 6 [] c = "7" -> 7
      [] c = "8" -> 8 [] OTHER -> 9

IsAddrText(s) ==
    Len(s) = 1 /\ IsDigit(s[1]) /\ DigitVal(s[1]) \in Addrs

IsCidrText(s) ==
    /\ Len(s) = 3
    /\ IsAddrText(<<s[1]>>)
    /\ s[2] = "/"
    /\ IsDigit(s[3])
    /\ DigitVal(s[3]) <= AddrBits

\* ipaddress.ip_network(text, strict=False) returns a network; otherwise it
\* raises ValueError
ParsesAsNetwork(s) == IsAddrText(s) \/ IsCidrText(s)

\* ipaddress.ip_network(text, strict=False): a bare address is the network
\* of full prefix length, and the host bits of a CIDR are masked off
IpNetwork(s) ==
    IF IsAddrText(s)
    THEN [base |-> DigitVal(s[1]), len |-> AddrBits]
    ELSE LET a == DigitVal(s[1])
             l == DigitVal(s[3])
         IN [base |-> a - (a % Pow2(AddrBits - l)), len |-> l]

InNetwork(a, n) == a - (a % Pow2(AddrBits - n.len)) = n.base

\* pdnssoc_ip_utils.validIPAddress
ValidIPAddress(s) == IsAddrText(s)

\* ---------------------------------------------------------------- attributes
\* One attribute a MISP server returns
Attribute(t, v) == [type |-> t, value |-> v]

\* misp.search(controller='attributes', type_attribute=types, to_ids=1):
\* the server's attributes of these types, in the server's order
Search(server, types) == SelectSeq(server.attrs, LAMBDA a : a.type \in types)

Values(attributes) == [k \in DOMAIN attributes |-> attributes[k].value]

\* str.split(sep): the parts of s between the occurrences of sep
RECURSIVE SplitFrom(_, _, _)
SplitFrom(s, sep, part) ==
    IF s = <<>> THEN <<part>>
    ELSE IF Head(s) = sep
         THEN <<part>> \o SplitFrom(Tail(s), sep, <<>>)
         ELSE SplitFrom(Tail(s), sep, Append(part, Head(s)))

Split(s, sep) == SplitFrom(s, sep, <<>>)

\* urlparse(value).netloc: what follows a leading // up to the next /
Netloc(s) ==
    IF Len(s) >= 2 /\ s[1] = "/" /\ s[2] = "/"
    THEN Split(SubSeq(s, 3, Len(s)), "/")[1]
    ELSE <<>>

\* ---------------------------------------------------------------- state
VARIABLES
    \* configuration file (ctx.obj['CONFIG'])
    config,              \* [ptr, domCfg, ipCfg]: which keys correlation_config holds
    servers,             \* misp_servers: per server the attribute values it returns
    \* files on disk
    cursorFile,          \* last_correlation_pointer_file
    domainsFile,         \* malicious_domains_file
    ipsFile,             \* malicious_ips_file
    args,                \* the input paths given on the command line, with content
    present,             \* indices of args that still exist on disk
    matchesJson,         \* output_dir/matches.json, one entry per line
    \* one correlate run
    pc,
    kwargs,              \* [start, end, delete]
    start_date,
    misp,                \* the loop variable of line 167, read again at line 198
    misp_connections,
    domain_attributes,
    ip_attributes,
    fileIdx,             \* position of the loop of line 210
    total_matches,
    total_matches_minified,
    enriched,            \* line 263
    enriched_minified,   \* line 264
    to_output,
    error,               \* the exception that ended the run, "" if none
    runs,                \* number of correlate runs started
    cursorBefore,        \* cursorFile when the current run started
    \* fetch-iocs
    fetches,             \* number of fetch-iocs runs started
    lastFetch            \* what the last fetch-iocs run saw and wrote

fileVars == <<cursorFile, domainsFile, ipsFile, args, present, matchesJson>>
runVars == <<pc, kwargs, start_date, misp, misp_connections, domain_attributes,
             ip_attributes, fileIdx, total_matches, total_matches_minified,
             enriched, enriched_minified, to_output, error, runs, cursorBefore>>
fetchVars == <<fetches, lastFetch>>
vars == <<config, servers, fileVars, runVars, fetchVars>>

\* ---------------------------------------------------------------- values
NoFile == [exists |-> FALSE, lines |-> <<>>]
TextFile(ls) == [exists |-> TRUE, lines |-> ls]

\* The cursor file: absent, empty, holding a line that is no timestamp, or
\* holding one RFC3339 timestamp.
CursorMissing == [state |-> "missing", ts |-> 0]
CursorEmpty == [state |-> "empty", ts |-> 0]
CursorUnparsable == [state |-> "unparsable", ts |-> 0]
CursorAt(t) == [state |-> "valid", ts |-> t]

Unbound == [bound |-> FALSE, v |-> 0]
Bound(x) == [bound |-> TRUE, v |-> x]

\* --start-date: click's default is None
NoDate == [given |-> FALSE, t |-> 0]
Date(t) == [given |-> TRUE, t |-> t]

\* One log record. answers are the IP literals among the record's answers.
Record(t, q, as) == [ts |-> t, query |-> q, answers |-> as]
\* One regular file holding log records: its encoding and whether read_file
\* returns an iterator for it.
LogFile(m, ok, rs) == [min |-> m, parsable |-> ok, recs |-> rs]
\* One command-line path: a regular file (one member) or a directory tree.
FileArg(f) == [dir |-> FALSE, files |-> <<f>>]
DirArg(fs) == [dir |-> TRUE, files |-> fs]

\* ---------------------------------------------------------------- helpers
\* pdnssoc_file_utils.read_file on a line-oriented text file: its lines,
\* blank ones left out
ReadLines(f) == SelectSeq(f.lines, LAMBDA l : Strip(l) # <<>>)

\* lines 143-149: the first line of the cursor file, parsed; or the exception
\* that ends the run. An empty file gives the loop of line 144 nothing, so
\* start_date stays unassigned and line 158 raises on reading it. Whatever
\* read_file does with a missing path (raise, return no iterator, return an
\* empty one) and parse_rfc3339_ns with a line that is no timestamp, no
\* branch of these lines assigns the current time.
ReadCursor(cf) ==
    CASE cf.state = "valid" -> [ok |-> TRUE, t |-> cf.ts, err |-> ""]
      [] cf.state = "missing" -> [ok |-> FALSE, t |-> 0, err |-> "FileNotFoundError"]
      [] cf.state = "empty" -> [ok |-> FALSE, t |-> 0, err |-> "UnboundLocalError"]
      [] OTHER -> [ok |-> FALSE, t |-> 0, err |-> "ValueError"]

\* lines 140-154
StartDate(kw, cfg, cf) ==
    IF ~kw.start.given
    THEN IF cfg.ptr
         THEN ReadCursor(cf)
         ELSE [ok |-> TRUE, t |-> Now, err |-> ""]
    ELSE [ok |-> TRUE, t |-> kw.start.t, err |-> ""]

\* lines 174-185: the domain blacklist of one run
DomainAttributes(cfg, df, conns, srv) ==
    IF cfg.domCfg
    THEN {Strip(l) : l \in SeqToSet(ReadLines(df))}
    ELSE UNION {SeqToSet(Values(Search(srv[c], {"domain"}))) : c \in SeqToSet(conns)}

\* lines 191-196 and 200-205: the values ip_network accepts, as networks
ParsedNetworks(values) ==
    {IpNetwork(v) : v \in {x \in SeqToSet(values) : ParsesAsNetwork(x)}}

\* lines 188-205: the IP blacklist of one run whose misp is bound. The lines
\* of a file are stripped, the values of a server are not.
IpAttributes(cfg, ipf, m, srv) ==
    IF cfg.ipCfg
    THEN ParsedNetworks([k \in DOMAIN ReadLines(ipf) |-> Strip(ReadLines(ipf)[k])])
    ELSE ParsedNetworks(Values(Search(srv[m.v], {"ip-src", "ip-dst"})))

\* IndicatorSet.matchesDomain
MatchesDomain(name, domains) == Lower(name) \in domains

\* IndicatorSet.matchesIp
MatchesIp(a, networks) == \E n \in networks : InNetwork(a, n)

InWindow(t, start, end) == ~(t < start \/ t >= end)

Match(id, r, k, f, m) ==
    [rec |-> id, ts |-> r.ts, kind |-> k, field |-> f, min |-> m]

RECURSIVE IpMatches(_, _, _, _, _)
IpMatches(id, r, networks, m, k) ==
    IF k > Len(r.answers) THEN <<>>
    ELSE (IF MatchesIp(r.answers[k], networks)
          THEN <<Match(id, r, "ip", k, m)>> ELSE <<>>)
         \o IpMatches(id, r, networks, m, k + 1)

RecordMatches(id, r, start, end, domains, networks, m) ==
    IF ~InWindow(r.ts, start, end) THEN <<>>
    ELSE (IF MatchesDomain(r.query, domains)
          THEN <<Match(id, r, "domain", 0, m)>> ELSE <<>>)
         \o IpMatches(id, r, networks, m, 1)

\* pdnssoc_correlation_utils.correlate_file: the matches of one file, in the
\* order of its records. fid is <<arg, member>>.
RECURSIVE CorrelateFrom(_, _, _, _, _, _, _)
CorrelateFrom(f, fid, k, start, end, domains, networks) ==
    IF k > Len(f.recs) THEN <<>>
    ELSE RecordMatches(<<fid[1], fid[2], k>>, f.recs[k], start, end,
                       domains, networks, f.min)
         \o CorrelateFrom(f, fid, k + 1, start, end, domains, networks)

CorrelateFile(f, fid, start, end, domains, networks) ==
    CorrelateFrom(f, fid, 1, start, end, domains, networks)

\* The regular files the loop body of line 210 reads for args[i]: the file
\* itself, or what rglob finds below the directory (nothing when the path is
\* gone).
Members(i) ==
    IF i \in present THEN args[i].files ELSE <<>>

\* lines 213-231 and 237-257: what one command-line path adds to the bucket
\* of encoding m
RECURSIVE ArgMatchesFrom(_, _, _, _, _, _, _)
ArgMatchesFrom(i, j, m, start, end, domains, networks) ==
    IF j > Len(Members(i)) THEN <<>>
    ELSE LET f == Members(i)[j] IN
         (IF f.parsable /\ f.min = m
          THEN CorrelateFile(f, <<i, j>>, start, end, domains, networks)
          ELSE <<>>)
         \o ArgMatchesFrom(i, j + 1, m, start, end, domains, networks)

ArgMatches(i, m) ==
    ArgMatchesFrom(i, 1, m, start_date.v, kwargs.end, domain_attributes,
                   ip_attributes)

\* pdnssoc_enrichment_utils.enrich_logs: one enriched document per match, in
\* the order of the matches, its timestamp the record's
EnrichLogs(logs, conns, is_minified) ==
    [k \in DOMAIN logs |->
        [match |-> logs[k], timestamp |-> logs[k].ts, minified |-> is_minified,
         context |-> conns]]

\* InsertByTimestamp placing x before the elements of equal timestamp: a
\* sort that is not stable
RECURSIVE InsertBeforeEqual(_, _)
InsertBeforeEqual(x, s) ==
    IF s = <<>> THEN <<x>>
    ELSE IF Head(s).timestamp < x.timestamp
         THEN <<Head(s)>> \o InsertBeforeEqual(x, Tail(s))
         ELSE <<x>> \o s

RECURSIVE InsertByTimestamp(_, _)
InsertByTimestamp(x, s) ==
    IF s = <<>> THEN <<x>>
    ELSE IF Head(s).timestamp <= x.timestamp
         THEN <<Head(s)>> \o InsertByTimestamp(x, Tail(s))
         ELSE <<x>> \o s

RECURSIVE SortInto(_, _)
SortInto(acc, rest) ==
    IF rest = <<>> THEN acc
    ELSE SortInto(InsertByTimestamp(Head(rest), acc), Tail(rest))

\* line 270: sorted(to_output, key=lambda d: d['timestamp']), a stable sort
SortedByTimestamp(s) == SortInto(<<>>, s)

\* ToOutput without the sort of line 270
ToOutputUnsorted(full, minified) ==
    full \o minified

\* line 269-270
ToOutput(full, minified) ==
    SortedByTimestamp(full \o minified)

\* line 279: the value the cursor file gets
LastTimestamp(out) == out[Len(out)].timestamp

\* NewCursor without the test of line 277: the cursor file is opened for
\* writing, and so truncated, whether or not there is a timestamp to write
NewCursorUnguarded(out, cf) ==
    IF out # <<>> THEN CursorAt(LastTimestamp(out)) ELSE CursorEmpty

\* lines 276-279: the cursor file after the run's output was written
NewCursor(out, cf) ==
    IF out # <<>> THEN CursorAt(LastTimestamp(out)) ELSE cf

\* ---------------------------------------------------------------- correlate
StartChoices == {NoDate} \cup {Date(t) : t \in Times}
EndChoices == (Times \cup {Now}) \ {0}

NoKwargs == [start |-> NoDate, end |-> Now, delete |-> FALSE]

Raise(e) == pc' = "aborted" /\ error' = e

\* The command is invoked: click parses --start-date, --end-date and
\* --delete-on-success (lines 78-97) and calls correlate.
StartRun ==
    /\ pc \in {"idle", "done", "aborted"}
    /\ runs < MaxRuns
    /\ \E s \in StartChoices, e \in EndChoices, d \in BOOLEAN :
         kwargs' = [start |-> s, end |-> e, delete |-> d]
    /\ pc' = "start"
    /\ error' = ""
    /\ start_date' = Unbound
    /\ misp' = Unbound
    /\ misp_connections' = <<>>
    /\ domain_attributes' = {}
    /\ ip_attributes' = {}
    /\ fileIdx' = 1
    /\ total_matches' = <<>>
    /\ total_matches_minified' = <<>>
    /\ enriched' = <<>>
    /\ enriched_minified' = <<>>
    /\ to_output' = <<>>
    /\ runs' = runs + 1
    /\ cursorBefore' = cursorFile
    /\ UNCHANGED <<config, servers, fileVars, fetchVars>>

\* lines 140-163
DetermineStart ==
    /\ pc = "start"
    /\ LET r == StartDate(kwargs, config, cursorFile) IN
         IF r.ok
         THEN start_date' = Bound(r.t) /\ pc' = "misp" /\ error' = error
         ELSE start_date' = Unbound /\ Raise(r.err)
    /\ UNCHANGED <<enriched, enriched_minified>>
    /\ UNCHANGED <<config, servers, fileVars, fetchVars, kwargs, misp,
                   misp_connections, domain_attributes, ip_attributes, fileIdx,
                   total_matches, total_matches_minified, to_output, runs,
                   cursorBefore>>

\* lines 165-171
SetupMisp ==
    /\ pc = "misp"
    /\ misp_connections' = [k \in 1..Len(servers) |-> k]
    /\ misp' = IF Len(servers) = 0 THEN Unbound ELSE Bound(Len(servers))
    /\ pc' = "domains"
    /\ UNCHANGED <<enriched, enriched_minified>>
    /\ UNCHANGED <<config, servers, fileVars, fetchVars, kwargs, start_date,
                   domain_attributes, ip_attributes, fileIdx, total_matches,
                   total_matches_minified, to_output, error, runs, cursorBefore>>

\* lines 173-185
BuildDomains ==
    /\ pc = "domains"
    /\ IF config.domCfg /\ ~domainsFile.exists
       THEN Raise("FileNotFoundError") /\ domain_attributes' = domain_attributes
       ELSE /\ domain_attributes' =
                  DomainAttributes(config, domainsFile, misp_connections, servers)
            /\ pc' = "ips"
            /\ error' = error
    /\ UNCHANGED <<enriched, enriched_minified>>
    /\ UNCHANGED <<config, servers, fileVars, fetchVars, kwargs, start_date, misp,
                   misp_connections, ip_attributes, fileIdx, total_matches,
                   total_matches_minified, to_output, runs, cursorBefore>>

\* lines 188-205. Without an IPs file the search of line 198 is made on misp,
\* the variable the loop of line 167 left behind: the last server, or no
\* binding at all when no server is configured.
BuildIps ==
    /\ pc = "ips"
    /\ IF config.ipCfg /\ ~ipsFile.exists
       THEN Raise("FileNotFoundError") /\ ip_attributes' = ip_attributes
       ELSE IF ~config.ipCfg /\ ~misp.bound
            THEN Raise("NameError") /\ ip_attributes' = ip_attributes
            ELSE /\ ip_attributes' = IpAttributes(config, ipsFile, misp, servers)
                 /\ pc' = "files"
                 /\ error' = error
    /\ UNCHANGED <<enriched, enriched_minified>>
    /\ UNCHANGED <<config, servers, fileVars, fetchVars, kwargs, start_date, misp,
                   misp_connections, domain_attributes, fileIdx, total_matches,
                   total_matches_minified, to_output, runs, cursorBefore>>

\* One iteration of the loop of line 210: correlate the path's files, then,
\* with --delete-on-success, unlink the file (line 234) or remove the tree
\* (line 260). A path that is gone is no file, so it takes the directory
\* branch, where rmtree raises.
ProcessArg ==
    /\ pc = "files"
    /\ fileIdx <= Len(args)
    /\ total_matches' = total_matches \o ArgMatches(fileIdx, FALSE)
    /\ total_matches_minified' =
           total_matches_minified \o ArgMatches(fileIdx, TRUE)
    /\ IF kwargs.delete
       THEN IF fileIdx \in present
            THEN /\ present' = present \ {fileIdx}
                 /\ fileIdx' = fileIdx + 1
                 /\ UNCHANGED <<pc, error>>
            ELSE /\ Raise("FileNotFoundError")
                 /\ UNCHANGED <<present, fileIdx>>
       ELSE /\ fileIdx' = fileIdx + 1
            /\ UNCHANGED <<present, pc, error>>
    /\ UNCHANGED <<enriched, enriched_minified>>
    /\ UNCHANGED <<config, servers, cursorFile, domainsFile, ipsFile, args,
                   matchesJson, fetchVars, kwargs, start_date, misp,
                   misp_connections, domain_attributes, ip_attributes, to_output,
                   runs, cursorBefore>>

\* lines 263-274: enrich both buckets, merge, sort, append to matches.json
Persist ==
    /\ pc = "files"
    /\ fileIdx > Len(args)
    /\ enriched' = EnrichLogs(total_matches, misp_connections, FALSE)
    /\ enriched_minified' = EnrichLogs(total_matches_minified, misp_connections, TRUE)
    /\ to_output' = ToOutput(enriched', enriched_minified')
    /\ matchesJson' =
           matchesJson \o [k \in DOMAIN to_output' |-> [doc |-> to_output'[k], run |-> runs]]
    /\ pc' = "cursor"
    /\ UNCHANGED <<config, servers, cursorFile, domainsFile, ipsFile, args,
                   present, fetchVars, kwargs, start_date, misp, misp_connections,
                   domain_attributes, ip_attributes, fileIdx, total_matches,
                   total_matches_minified, error, runs, cursorBefore>>

\* lines 263-274 when enrichment or opening matches.json raises: the run
\* ends with nothing written
PersistFails ==
    /\ pc = "files"
    /\ fileIdx > Len(args)
    /\ Raise("IOError")
    /\ UNCHANGED <<enriched, enriched_minified>>
    /\ UNCHANGED <<config, servers, fileVars, fetchVars, kwargs, start_date, misp,
                   misp_connections, domain_attributes, ip_attributes, fileIdx,
                   total_matches, total_matches_minified, to_output, runs,
                   cursorBefore>>

\* lines 276-279. Line 278 reads the key last_correlation_pointer_file
\* whether or not line 142 found it.
WriteCursor ==
    /\ pc = "cursor"
    /\ IF to_output # <<>> /\ ~config.ptr
       THEN Raise("KeyError") /\ cursorFile' = cursorFile
       ELSE /\ cursorFile' = NewCursor(to_output, cursorFile)
            /\ pc' = "done"
            /\ error' = error
    /\ UNCHANGED <<enriched, enriched_minified>>
    /\ UNCHANGED <<config, servers, domainsFile, ipsFile, args, present,
                   matchesJson, fetchVars, kwargs, start_date, misp,
                   misp_connections, domain_attributes, ip_attributes, fileIdx,
                   total_matches, total_matches_minified, to_output, runs,
                   cursorBefore>>

RunStep ==
    \/ DetermineStart
    \/ SetupMisp
    \/ BuildDomains
    \/ BuildIps
    \/ ProcessArg
    \/ Persist
    \/ PersistFails
    \/ WriteCursor

Next == StartRun \/ RunStep

\* ---------------------------------------------------------------- initial states
Ev == <<"e", "v">>
EV == <<"E", "V">>
Ok == <<"o", "k">>

\* A server with one domain and one address
OneServer ==
    [attrs |-> <<Attribute("domain", Ev), Attribute("ip-dst", <<"3">>)>>]

\* The locals of a run before any run started
IdleRun ==
    /\ pc = "idle"
    /\ kwargs = NoKwargs
    /\ start_date = Unbound
    /\ misp = Unbound
    /\ misp_connections = <<>>
    /\ domain_attributes = {}
    /\ ip_attributes = {}
    /\ fileIdx = 1
    /\ total_matches = <<>>
    /\ total_matches_minified = <<>>
    /\ enriched = <<>>
    /\ enriched_minified = <<>>
    /\ to_output = <<>>
    /\ error = ""
    /\ runs = 0
    /\ cursorBefore = cursorFile

NoFetch ==
    /\ fetches = 0
    /\ lastFetch = [impl |-> "", servers |-> <<>>, repeat |-> FALSE,
                    domOld |-> {}, domNew |-> {}, domWrote |-> FALSE,
                    ipOld |-> {}, ipNew |-> {}, ipWrote |-> FALSE]

\* Input paths the runs are given: mixed encodings, files and directory
\* trees, timestamps out of order, ties across encodings, a file read_file
\* gives no iterator for, records that match nothing.
InputScenarios ==
    { <<FileArg(LogFile(FALSE, TRUE, <<Record(MaxTime, Ev, <<>>), Record(1, EV, <<>>)>>)),
        FileArg(LogFile(TRUE, TRUE, <<Record(2, Ev, <<>>)>>))>>,
      <<DirArg(<<LogFile(TRUE, TRUE, <<Record(1, Ev, <<>>)>>),
                 LogFile(FALSE, TRUE, <<Record(1, Ev, <<>>), Record(2, Ok, <<3>>)>>)>>)>>,
      <<FileArg(LogFile(FALSE, FALSE, <<>>)),
        FileArg(LogFile(FALSE, TRUE, <<Record(2, Ok, <<0>>)>>))>>,
      <<FileArg(LogFile(FALSE, TRUE, <<Record(0, Ev, <<3>>), Record(MaxTime, Ev, <<>>)>>))>> }

CursorChoices ==
    {CursorMissing, CursorEmpty, CursorUnparsable} \cup {CursorAt(t) : t \in Times}

\* correlate runs one after the other over the same command-line paths, with
\* the indicator files of one fetch
Init ==
    /\ config \in {[ptr |-> p, domCfg |-> TRUE, ipCfg |-> TRUE] : p \in BOOLEAN}
    /\ servers = <<OneServer>>
    /\ cursorFile \in CursorChoices
    /\ config.ptr \/ cursorFile = CursorMissing
    /\ domainsFile = TextFile(<<Ev>>)
    /\ ipsFile = TextFile(<<<<"3", "/", "1">>, <<"x">>>>)
    /\ args \in InputScenarios
    /\ present = 1..Len(args)
    /\ matchesJson = <<>>
    /\ IdleRun
    /\ NoFetch

Spec == Init /\ [][Next]_vars

\* ---- one run, every indicator configuration
SeqsUpTo2(S) == {<<>>} \cup {<<a>> : a \in S} \cup {<<a, b>> : a \in S, b \in S}

RECURSIVE SeqsUpTo(_, _)
SeqsUpTo(S, n) ==
    IF n = 0 THEN {<<>>}
    ELSE LET shorter == SeqsUpTo(S, n - 1) IN
         shorter \cup {Append(q, a) : q \in shorter, a \in S}

DomainLines == {Ev, EV, <<"e", "v", " ">>, Ok}
IpLines == {<<"0", "/", "1">>, <<"3", "/", "1">>, <<"1", " ">>, <<"x">>}
ServerChoices ==
    { [attrs |-> <<Attribute("domain", EV), Attribute("ip-src", <<"1">>),
                   Attribute("ip-dst", <<"x">>)>>],
      [attrs |-> <<Attribute("domain", Ev), Attribute("ip-dst", <<"2", "/", "1">>),
                   Attribute("domain", Ok)>>] }

BuildArgs ==
    <<FileArg(LogFile(FALSE, TRUE, <<Record(1, EV, <<1>>), Record(2, Ev, <<3>>)>>)),
      FileArg(LogFile(TRUE, TRUE, <<Record(2, Ok, <<0, 2>>)>>))>>

\* A run that was just invoked with the given options
FirstRun(kw) ==
    /\ pc = "start"
    /\ kwargs = kw
    /\ start_date = Unbound
    /\ misp = Unbound
    /\ misp_connections = <<>>
    /\ domain_attributes = {}
    /\ ip_attributes = {}
    /\ fileIdx = 1
    /\ total_matches = <<>>
    /\ total_matches_minified = <<>>
    /\ enriched = <<>>
    /\ enriched_minified = <<>>
    /\ to_output = <<>>
    /\ error = ""
    /\ runs = 1
    /\ cursorBefore = cursorFile

InitBuild ==
    /\ config \in {[ptr |-> TRUE, domCfg |-> d, ipCfg |-> i] : d \in BOOLEAN, i \in BOOLEAN}
    /\ servers \in SeqsUpTo(ServerChoices, MaxServers)
    /\ cursorFile = CursorAt(0)
    /\ domainsFile \in {TextFile(ls) : ls \in SeqsUpTo2(DomainLines)}
    /\ ipsFile \in {TextFile(ls) : ls \in SeqsUpTo2(IpLines)}
    /\ args = BuildArgs
    /\ present = 1..Len(args)
    /\ matchesJson = <<>>
    /\ FirstRun([start |-> Date(0), end |-> Now, delete |-> FALSE])
    /\ NoFetch

SpecBuild == InitBuild /\ [][RunStep]_vars

\* ---- one run, every order of timestamps over two files of either encoding
InitSort ==
    /\ config = [ptr |-> TRUE, domCfg |-> TRUE, ipCfg |-> TRUE]
    /\ servers = <<OneServer>>
    /\ cursorFile = CursorAt(0)
    /\ domainsFile = TextFile(<<Ev>>)
    /\ ipsFile = TextFile(<<<<"3", "/", "1">>, <<"x">>>>)
    /\ \E t1 \in Times, t2 \in Times, t3 \in Times, t4 \in Times,
          m1 \in BOOLEAN, m2 \in BOOLEAN :
         args = <<FileArg(LogFile(m1, TRUE, <<Record(t1, Ev, <<>>), Record(t2, Ev, <<3>>)>>)),
                  FileArg(LogFile(m2, TRUE, <<Record(t3, EV, <<>>), Record(t4, Ok, <<3>>)>>))>>
    /\ present = 1..Len(args)
    /\ matchesJson = <<>>
    /\ \E e \in EndChoices :
         FirstRun([start |-> Date(0), end |-> e, delete |-> FALSE])
    /\ NoFetch

SpecSort == InitSort /\ [][RunStep]_vars

\* ---------------------------------------------------------------- fetch-iocs
Nothing == [ok |-> TRUE, dom |-> <<>>, ip |-> <<>>]
Unpacked == [ok |-> FALSE, dom |-> <<>>, ip |-> <<>>]

\* subcommands/fetch_iocs.py lines 77-105: the bucket of one attribute. ok is
\* FALSE when unpacking a split into two names raises ValueError.
Bucket(a) ==
    CASE a.type \in {"domain", "hostname"} ->
             [ok |-> TRUE, dom |-> <<a.value>>, ip |-> <<>>]
      [] a.type = "domain|ip" ->
             LET p == Split(a.value, "|") IN
             IF Len(p) = 2 THEN [ok |-> TRUE, dom |-> <<p[1]>>, ip |-> <<p[2]>>]
             ELSE Unpacked
      [] a.type = "hostname|port" ->
             LET p == Split(a.value, "|") IN
             IF Len(p) = 2 THEN [ok |-> TRUE, dom |-> <<p[1]>>, ip |-> <<>>]
             ELSE Unpacked
      [] a.type \in {"ip-src", "ip-dst"} ->
             [ok |-> TRUE, dom |-> <<>>, ip |-> <<a.value>>]
      [] a.type \in {"ip-src|port", "ip-dst|port"} ->
             LET p == Split(a.value, "|") IN
             IF Len(p) = 2 THEN [ok |-> TRUE, dom |-> <<>>, ip |-> <<p[1]>>]
             ELSE Unpacked
      [] a.type = "url" ->
             LET domain == Netloc(a.value) IN
             IF ":" \in SeqToSet(domain)
             THEN LET p == Split(domain, ":") IN
                  IF Len(p) # 2 THEN Unpacked
                  ELSE IF ValidIPAddress(p[1])
                       THEN [ok |-> TRUE, dom |-> <<>>, ip |-> <<p[1]>>]
                       ELSE Nothing
             ELSE IF ValidIPAddress(domain)
                  THEN [ok |-> TRUE, dom |-> <<>>, ip |-> <<domain>>]
                  ELSE [ok |-> TRUE, dom |-> <<domain>>, ip |-> <<>>]
      [] OTHER -> Nothing

RECURSIVE Buckets(_)
Buckets(attributes) ==
    IF attributes = <<>> THEN Nothing
    ELSE LET b == Bucket(Head(attributes))
             rest == Buckets(Tail(attributes))
         IN [ok |-> b.ok /\ rest.ok, dom |-> b.dom \o rest.dom, ip |-> b.ip \o rest.ip]

FetchTypes ==
    {"domain", "domain|ip", "hostname", "hostname|port", "ip-src", "ip-src|port",
     "ip-dst", "ip-dst|port", "url"}

\* subcommands/fetch_iocs.py lines 56-105
NewAttributesSubcommand(srv) ==
    Buckets(Flatten([k \in DOMAIN srv |-> Search(srv[k], FetchTypes)]))

\* pdnssoccli.py lines 338-342 and 363-366
NewAttributes(srv) ==
    [ok |-> TRUE,
     dom |-> Flatten([k \in DOMAIN srv |-> Values(Search(srv[k], {"domain"}))]),
     ip |-> Flatten([k \in DOMAIN srv |-> Values(Search(srv[k], {"ip-src", "ip-dst"}))])]

\* lines 111-115 (331-335): the stripped lines of the file, none without it
OldAttributes(f) ==
    IF f.exists THEN {Strip(l) : l \in SeqToSet(ReadLines(f))} ELSE {}

\* line 117 (344)
Differs(old, new) == old # new

Orders(S) ==
    {q \in [1..Cardinality(S) -> S] : \A x \in S : \E k \in DOMAIN q : q[k] = x}

\* lines 117-121 (344-348): the files the indicator file may be after the
\* comparison; list(set(...)) is in no particular order
Rewritten(f, new) ==
    IF Differs(OldAttributes(f), SeqToSet(new))
    THEN {TextFile(q) : q \in Orders(SeqToSet(new))}
    ELSE {f}

\* One fetch-iocs run with the fetched values new
Fetch(impl, new) ==
    /\ fetches < MaxFetches
    /\ fetches' = fetches + 1
    /\ IF new.ok
       THEN /\ domainsFile' \in Rewritten(domainsFile, new.dom)
            /\ ipsFile' \in Rewritten(ipsFile, new.ip)
       ELSE UNCHANGED <<domainsFile, ipsFile>>
    /\ lastFetch' =
           [impl |-> impl, servers |-> servers,
            repeat |-> (lastFetch.impl = impl /\ lastFetch.servers = servers),
            domOld |-> SeqToSet(domainsFile.lines), domNew |-> SeqToSet(new.dom),
            domWrote |-> (new.ok /\ Differs(OldAttributes(domainsFile), SeqToSet(new.dom))),
            ipOld |-> SeqToSet(ipsFile.lines), ipNew |-> SeqToSet(new.ip),
            ipWrote |-> (new.ok /\ Differs(OldAttributes(ipsFile), SeqToSet(new.ip)))]
    /\ UNCHANGED <<config, servers, cursorFile, args, present, matchesJson, runVars>>

\* pdnssoccli.py lines 309-372
FetchIocs == Fetch("main", NewAttributes(servers))

\* subcommands/fetch_iocs.py lines 39-140
FetchIocsSubcommand == Fetch("subcommand", NewAttributesSubcommand(servers))

FetchServers ==
    { [attrs |-> <<Attribute("domain", Ev), Attribute("ip-src", <<"1">>)>>],
      [attrs |-> <<Attribute("domain", <<"e", "v", " ">>), Attribute("ip-dst", <<"2", "/", "1">>)>>],
      [attrs |-> <<Attribute("domain|ip", <<"o", "k", "|", "3">>),
                   Attribute("url", <<"e", "v", "/", "x">>),
                   Attribute("url", <<"/", "/", "e", "v", ":", "8">>)>>],
      [attrs |-> <<Attribute("hostname|port", <<"o", "k", "|", "8">>),
                   Attribute("url", <<"/", "/", "1", "/", "x">>),
                   Attribute("ip-src|port", <<"2", "|", "8">>),
                   Attribute("domain", Ev)>>] }

\* What the servers hold changes between two fetches
ChangeServers ==
    /\ fetches < MaxFetches
    /\ servers' \in SeqsUpTo(FetchServers, MaxServers) \ {servers}
    /\ UNCHANGED <<config, fileVars, runVars, fetchVars>>

NextFetch == FetchIocs \/ FetchIocsSubcommand \/ ChangeServers

InitFetch ==
    /\ config = [ptr |-> TRUE, domCfg |-> TRUE, ipCfg |-> TRUE]
    /\ servers \in SeqsUpTo(FetchServers, MaxServers)
    /\ cursorFile = CursorMissing
    /\ domainsFile \in {NoFile, TextFile(<<>>), TextFile(<<Ev>>), TextFile(<<Ok, Ev>>)}
    /\ ipsFile \in {NoFile, TextFile(<<<<"1">>>>)}
    /\ args = <<>>
    /\ present = {}
    /\ matchesJson = <<>>
    /\ IdleRun
    /\ NoFetch

SpecFetch == InitFetch /\ [][NextFetch]_vars

\* ---------------------------------------------------------------- properties
MaxOf(S) == CHOOSE t \in S : \A u \in S : u <= t

\* The matches the current run found, both buckets
Found == SeqToSet(total_matches) \cup SeqToSet(total_matches_minified)

\* The entries of matches.json the run numbered n appended
PersistedBy(n) == {e \in SeqToSet(matchesJson) : e.run = n}

\* C1: in every state of a correlate run whose merged batch of enriched
\* matches is empty, the cursor file is what it was when the run started.
C1_EmptyBatchKeepsCursor ==
    (pc # "idle" /\ to_output = <<>>) => cursorFile = cursorBefore

\* A run over inputs that hold records ended normally with an empty batch
\* and a cursor file in place.
C1_Witness ==
    /\ pc = "done"
    /\ to_output = <<>>
    /\ config.ptr
    /\ cursorFile.state = "valid"
    /\ present # {}

\* C2: when a correlate run with a non-empty batch ends, the cursor file
\* holds one value, the greatest timestamp among the matches the run found
\* in either bucket.
C2_CursorIsMaxOfBatch ==
    (pc = "done" /\ Found # {}) =>
        cursorFile = CursorAt(MaxOf({m.ts : m \in Found}))

\* A run ended whose matches were found with the greatest timestamp first
\* and in both buckets.
C2_Witness ==
    /\ pc = "done"
    /\ total_matches # <<>>
    /\ total_matches_minified # <<>>
    /\ Len(total_matches) >= 2
    /\ total_matches[1].ts > total_matches[2].ts
    /\ total_matches[1].ts > total_matches_minified[1].ts

\* C3: an input path that --delete-on-success removed has every match the
\* run found in it already written to matches.json.
C3_DeleteOnlyAfterPersist ==
    \A m \in Found :
        m.rec[1] \notin present =>
            \E e \in PersistedBy(runs) : e.doc.match = m

\* C4: every match lies in [start, end), and a run that takes its window
\* start from the cursor file persists no log record that an earlier run
\* persisted.
C4_NoRecordPersistedTwice ==
    /\ \A m \in Found : start_date.v <= m.ts /\ m.ts < kwargs.end
    /\ (pc \in {"cursor", "done"} /\ ~kwargs.start.given) =>
          \A e \in SeqToSet(matchesJson) :
              e.run < runs =>
                  \A k \in DOMAIN to_output : to_output[k].match.rec # e.doc.match.rec

\* C5: when a run ends and matches.json holds a match, the cursor file holds
\* the greatest timestamp of all matches persisted so far.
C5_CursorIsMaxPersisted ==
    (pc = "done" /\ config.ptr /\ matchesJson # <<>>) =>
        cursorFile =
            CursorAt(MaxOf({matchesJson[k].doc.timestamp : k \in DOMAIN matchesJson}))

\* C7: a run without --start-date whose cursor file is absent, empty or
\* corrupt goes on with the current time as its window start.
C7_FallsBackToNow ==
    (/\ pc \notin {"idle", "start"}
     /\ ~kwargs.start.given
     /\ config.ptr
     /\ cursorBefore.state \in {"missing", "empty", "unparsable"})
        => start_date = Bound(Now)

\* ---- indicator sets (SpecBuild)
\* The domain indicator values the run was given: the lines of the domains
\* file, or what the configured servers return
DomainIndicators ==
    IF config.domCfg
    THEN SeqToSet(domainsFile.lines)
    ELSE UNION {SeqToSet(Values(Search(servers[k], {"domain"}))) : k \in DOMAIN servers}

\* The IP indicator values the run was given
IpIndicators ==
    IF config.ipCfg
    THEN {Strip(l) : l \in SeqToSet(ipsFile.lines)}
    ELSE UNION {SeqToSet(Values(Search(servers[k], {"ip-src", "ip-dst"}))) :
                k \in DOMAIN servers}

\* The log records of the input paths: <<arg, member, position>>
RecordIds ==
    UNION {UNION {{<<i, j, k>> : k \in DOMAIN args[i].files[j].recs} :
                  j \in DOMAIN args[i].files} : i \in DOMAIN args}
RecordAt(id) == args[id[1]].files[id[2]].recs[id[3]]

\* C8: the domain set of a run holds lowercased values, and every record in
\* the window whose query name equals a domain indicator up to letter case
\* yields a Domain match.
C8_DomainMatchIgnoresCase ==
    /\ pc \in {"ips", "files", "cursor", "done"} =>
           \A d \in domain_attributes : d = Lower(d)
    /\ pc \in {"cursor", "done"} =>
           \A id \in RecordIds :
               (/\ args[id[1]].files[id[2]].parsable
                /\ InWindow(RecordAt(id).ts, start_date.v, kwargs.end)
                /\ \E d \in DomainIndicators :
                       Lower(Strip(d)) = Lower(RecordAt(id).query))
               => \E m \in Found : m.rec = id /\ m.kind = "domain"

\* C9: building the IP set never ends the run, and the set built holds the
\* network of every indicator value that parses and nothing else.
C9_IpBuildNeverAborts ==
    /\ ~(pc = "aborted" /\ error \in {"NameError", "ValueError"})
    /\ pc \in {"files", "cursor", "done"} =>
           ip_attributes = {IpNetwork(v) : v \in {x \in IpIndicators : ParsesAsNetwork(x)}}

\* ---- output order (SpecSort)
\* What the current run appended to matches.json, in file order
AppendedDocs ==
    LET mine == SelectSeq(matchesJson, LAMBDA e : e.run = runs) IN
    [k \in DOMAIN mine |-> mine[k].doc]

\* Match a was found before match b during file traversal
TraversalBefore(a, b) ==
    \/ a.rec[1] < b.rec[1]
    \/ a.rec[1] = b.rec[1] /\ a.rec[2] < b.rec[2]
    \/ a.rec[1] = b.rec[1] /\ a.rec[2] = b.rec[2] /\ a.rec[3] < b.rec[3]
    \/ a.rec = b.rec /\ a.field < b.field

Ascending(out) ==
    \A k \in DOMAIN out, l \in DOMAIN out :
        k < l => out[k].timestamp <= out[l].timestamp

\* Every match found is in out exactly once
HoldsEachFound(out) ==
    /\ Len(out) = Len(total_matches) + Len(total_matches_minified)
    /\ \A m \in Found : \E k \in DOMAIN out : out[k].match = m

\* C6 as stated: the appended records are in ascending timestamp order and
\* any two of equal timestamp are in the order they were found in, whatever
\* their encodings.
C6_TiesKeepTraversalOrder ==
    pc \in {"cursor", "done"} =>
        LET out == AppendedDocs IN
        /\ HoldsEachFound(out)
        /\ Ascending(out)
        /\ \A k \in DOMAIN out, l \in DOMAIN out :
               (k < l /\ out[k].timestamp = out[l].timestamp)
                   => TraversalBefore(out[k].match, out[l].match)

\* The place of document d in the batch line 269 merges: the Full bucket's
\* enriched matches, then the Compact bucket's
PlaceInBatch(d) ==
    LET batch == enriched \o enriched_minified IN
    CHOOSE k \in DOMAIN batch : batch[k] = d

\* C6 amended: the appended records are every enriched match once, in
\* ascending timestamp order, and two of equal timestamp are in the order
\* they have in the merged batch: Full-encoded before Compact-encoded, and
\* within one encoding as enrich_logs returned them.
C6_TiesKeepBatchOrder ==
    pc \in {"cursor", "done"} =>
        LET out == AppendedDocs IN
        /\ HoldsEachFound(out)
        /\ Ascending(out)
        /\ \A k \in DOMAIN out, l \in DOMAIN out :
               (k < l /\ out[k].timestamp = out[l].timestamp) =>
                   /\ PlaceInBatch(out[k]) < PlaceInBatch(out[l])
                   /\ out[k].minified => out[l].minified

\* A run appended records found out of timestamp order, with a tie inside
\* one bucket and a tie between a Compact match and a Full match found
\* after it.
C6_Witness ==
    /\ pc = "done"
    /\ LET out == AppendedDocs IN
       /\ ~Ascending(EnrichLogs(total_matches, misp_connections, FALSE))
       /\ \E k \in DOMAIN out, l \in DOMAIN out :
              /\ k < l
              /\ out[k].timestamp = out[l].timestamp
              /\ out[k].minified = out[l].minified
              /\ out[k].match.rec # out[l].match.rec
       /\ \E k \in DOMAIN out, l \in DOMAIN out :
              /\ k < l
              /\ out[k].timestamp = out[l].timestamp
              /\ ~out[k].minified /\ out[l].minified
              /\ TraversalBefore(out[l].match, out[k].match)

\* ---- fetch-iocs (SpecFetch)
EachOnce(f, new) ==
    f.exists /\ SeqToSet(f.lines) = new /\ Len(f.lines) = Cardinality(new)

\* C10: a fetch overwrites an indicator file only when the fetched values
\* differ from the lines the file held, the overwritten file holds each
\* distinct fetched value exactly once, and a fetch against the server
\* results of the fetch before it writes neither file.
C10_FetchIsIdempotent ==
    /\ lastFetch.domWrote => lastFetch.domNew # lastFetch.domOld
    /\ lastFetch.ipWrote => lastFetch.ipNew # lastFetch.ipOld
    /\ lastFetch.domWrote => EachOnce(domainsFile, lastFetch.domNew)
    /\ lastFetch.ipWrote => EachOnce(ipsFile, lastFetch.ipNew)
    /\ lastFetch.repeat => ~lastFetch.domWrote /\ ~lastFetch.ipWrote

====
